---- MODULE Spec2Model ----
(***************************************************************************)
(* Category-based resumable crawl: SiteStructureDiscoverer (discovery of   *)
(* the category tree through asynchronous fetches and a pending-work       *)
(* counter) and CategoryBasedSpider (leaf-by-leaf traversal, bottom-up     *)
(* propagation of VISITED, persisted progress).                            *)
(*                                                                         *)
(* A path is the sequence of the names that the code joins with "/".  The  *)
(* root has the empty path.  A URL is a record [path, page]: page 1 of a   *)
(* category is the category's own url, later pages are the "next page"     *)
(* links of the pagination collaborator.                                   *)
(*                                                                         *)
(* Some operators bind an intermediate value as {F(x) : x \in {e}} and take *)
(* the one element of that set: this is F(e), with e evaluated once.       *)
(***************************************************************************)
EXTENDS Integers, Sequences, FiniteSets, Bags, TLC

\* ---------------------------------------------------------------- bounds
MaxLevels == 2
MaxPages == 2
MaxResumes == 1

\* ------------------------------------------------------------- constants
St_NEW == "NEW"
St_IN_PROGRESS == "IN_PROGRESS"
St_VISITED == "VISITED"
VisitState == {St_NEW, St_IN_PROGRESS, St_VISITED}

\* Category names in the order in which a page lists them.  A name is one
\* segment label: it holds no "/" and is unique among the names of its page,
\* so that splitting path + "/" + name gives the segments of path and then name.
NameList == <<"b", "a">>
Names == {NameList[i] : i \in 1..Len(NameList)}

\* Python's None, as a url and as a path.
NoneUrl == [path |-> <<"None">>, page |-> 0]
NonePath == <<"None">>
NoStructure == [p \in {} |-> 0]

Front(p) == SubSeq(p, 1, Len(p) - 1)

RECURSIVE PathsUpTo(_)
PathsUpTo(n) ==
    IF n = 0 THEN {<<>>}
    ELSE LET prev == PathsUpTo(n - 1)
         IN  prev \cup {Append(p, x) : p \in {q \in prev : Len(q) = n - 1}, x \in Names}

\* What a page can list: the first k names of NameList. A name is unique
\* among its siblings, so no listing holds a name twice.
Listings == {SubSeq(NameList, 1, k) : k \in 0..Len(NameList)}

VARIABLES
    category_parsers,   \* len(self.__category_parsers): number of levels
    site,               \* the site: page path -> names listed on that page
    numPages,           \* the site: number of content pages of every leaf
    config,             \* which arguments the constructor was given
    pc,                 \* "new" | "construction_failed" | "constructed" |
                        \* "start_failed" | "discovery" | "traversal"
    remaining_work,     \* SiteStructureDiscoverer.__remaining_work
    inflight,           \* bag of discovery fetches dispatched and not resolved
    suspended,          \* bag of the request lists that suspended
                        \* __process_category_response generators still yield
    structure,          \* the SiteStructure object in memory
    state,              \* CategoryBasedSpiderState fields in memory
    disk,               \* the progress file
    pager,              \* the SitePager of the spider
    completeCalls,      \* history: calls of on_discovery_complete
    zeroEnds,           \* history: resolutions that ended with the counter at 0
    resolutions,        \* history: discovery fetches resolved
    started,            \* history: leaves whose pagination was started
    resumes,            \* history: restarts from the progress file
    lastCallback        \* history: the handler that ran last

vars == <<category_parsers, site, numPages, config, pc, remaining_work, inflight,
          suspended,          structure, state, disk, pager, completeCalls, zeroEnds, resolutions,
          started, resumes, lastCallback>>

siteVars == <<category_parsers, site, numPages, config>>
discoveryVars == <<remaining_work, inflight, suspended, completeCalls, zeroEnds,
                   resolutions>>

\* ------------------------------------------------------------------ urls
CategoryUrl(p) == [path |-> p, page |-> 1]

\* CategoryParser.parse: the (url, name) pairs the page at `url` lists.
Parse(url) == [i \in 1..Len(site[url.path]) |->
                 [url |-> CategoryUrl(Append(url.path, site[url.path][i])),
                  name |-> site[url.path][i]]]

\* The "next page" link of a content page, None on the last page.
NextPageUrl(url) ==
    IF url.page < numPages THEN [url EXCEPT !.page = @ + 1] ELSE NoneUrl

\* ------------------------------------------------------------- the tree
NewNode == [url |-> NoneUrl, visit_state |-> St_NEW, children |-> <<>>]

\* SiteStructure(name): the root alone.
EmptyStructure == [p \in {<<>>} |-> NewNode]

\* One step of add_node_with_path: make sure the node at p exists under its
\* (existing) parent; an existing child of that name is reused.
EnsureNode(T, p) ==
    IF p \in DOMAIN T THEN T
    ELSE [q \in DOMAIN T \cup {p} |->
            IF q = p THEN NewNode
            ELSE IF q = Front(p)
                 THEN [T[q] EXCEPT !.children = Append(@, p[Len(p)])]
                 ELSE T[q]]

\* The walk of add_node_with_path down the segments of p, from segment i on.
\* (Written {F(x) : x \in {e}} so that the intermediate tree e is evaluated
\* once; the set has the one element F(e).)
RECURSIVE EnsurePrefixes(_, _, _)
EnsurePrefixes(T, p, i) ==
    IF i > Len(p) THEN T
    ELSE CHOOSE r \in {EnsurePrefixes(T1, p, i + 1) :
                          T1 \in {EnsureNode(T, SubSeq(p, 1, i))}} : TRUE

add_node_with_path(T, p, url) ==
    CHOOSE r \in {[T1 EXCEPT ![p].url = url] : T1 \in {EnsurePrefixes(T, p, 1)}} : TRUE

IsPrefix(p, q) == Len(p) <= Len(q) /\ SubSeq(q, 1, Len(p)) = p

\* Node.set_visit_state(visit_state, propagate): with propagate the state is
\* forced on every descendant too.
set_visit_state(T, p, vs, propagate) ==
    [q \in DOMAIN T |->
        IF q = p \/ (propagate /\ IsPrefix(p, q))
        THEN [T[q] EXCEPT !.visit_state = vs]
        ELSE T[q]]

\* The default of the propagate parameter.
DefaultPropagate == TRUE

IsLeaf(T, p) == T[p].children = <<>>

\* find_leaf_with_visit_state: pre-order, first leaf in the state wins;
\* NonePath when there is none.
RECURSIVE FindLeafFrom(_, _, _), FindLeafInChildren(_, _, _, _)
FindLeafFrom(T, p, vs) ==
    IF IsLeaf(T, p)
    THEN (IF T[p].visit_state = vs THEN p ELSE NonePath)
    ELSE FindLeafInChildren(T, p, 1, vs)
FindLeafInChildren(T, p, i, vs) ==
    IF i > Len(T[p].children) THEN NonePath
    ELSE CHOOSE r \in {IF found # NonePath THEN found
                       ELSE FindLeafInChildren(T, p, i + 1, vs) :
                          found \in {FindLeafFrom(T, Append(p, T[p].children[i]), vs)}} :
                TRUE

find_leaf_with_visit_state(T, vs) == FindLeafFrom(T, <<>>, vs)

\* Node.get_path / SiteStructure.get_node_at_path: a path names a node when
\* every segment exists; otherwise the lookup fails.
get_path(p) == p
HasNodeAtPath(T, p) == p \in DOMAIN T

\* ----------------------------------------------- CategoryBasedSpiderState
NoState == [site_structure |-> "None", current_page_url |-> NoneUrl,
            current_page_site_path |-> NonePath, is_loaded |-> FALSE]

NoDisk == [exists |-> FALSE, site_structure |-> NoStructure,
           current_page_url |-> NoneUrl, current_page_site_path |-> NonePath]

\* CategoryBasedSpiderState.save: the progress file becomes a copy of the
\* fields in memory (st.site_structure refers to the tree object T).
Save(T, st) ==
    [exists |-> TRUE,
     site_structure |-> IF st.site_structure = "None" THEN NoStructure ELSE T,
     current_page_url |-> st.current_page_url,
     current_page_site_path |-> st.current_page_site_path]

\* CategoryBasedSpiderState.__init__ with a progress file present.
Load(dk) ==
    [site_structure |-> "ref", current_page_url |-> dk.current_page_url,
     current_page_site_path |-> dk.current_page_site_path, is_loaded |-> TRUE]

\* ---------------------------------------------------------------- SitePager
NoPager == [status |-> "none", url |-> NoneUrl]

\* __create_site_pager(start_url) followed by create_start_request(): the
\* pager fetches start_url; no request can be made for None.
StartPager(start_url) ==
    [status |-> IF start_url = NoneUrl THEN "stalled" ELSE "fetching",
     url |-> start_url]

\* ------------------------------------------------------ CategoryBasedSpider
\* Mutants: one visited child is enough; the comparison inverted.
AreCategoryChildrenVisited_Any(T, p) ==
    \E i \in 1..Len(T[p].children) :
        T[Append(p, T[p].children[i])].visit_state = St_VISITED
AreCategoryChildrenVisited_Inverted(T, p) ==
    \A i \in 1..Len(T[p].children) :
        T[Append(p, T[p].children[i])].visit_state # St_VISITED

AreCategoryChildrenVisited(T, p) ==
    \A i \in 1..Len(T[p].children) :
        T[Append(p, T[p].children[i])].visit_state = St_VISITED

\* Mutant: the test of the siblings dropped, the parent alone set.
RECURSIVE PropagateVisited_Unchecked(_, _)
PropagateVisited_Unchecked(T, p) ==
    IF p # <<>>
    THEN CHOOSE r \in {PropagateVisited_Unchecked(T1, Front(p)) :
                          T1 \in {set_visit_state(T, Front(p), St_VISITED, FALSE)}} : TRUE
    ELSE T

RECURSIVE PropagateVisitedIfSiblingsVisited(_, _)
PropagateVisitedIfSiblingsVisited(T, p) ==
    IF p # <<>> /\ AreCategoryChildrenVisited(T, Front(p))
    THEN CHOOSE r \in {PropagateVisitedIfSiblingsVisited(T1, Front(p)) :
                          T1 \in {set_visit_state(T, Front(p), St_VISITED,
                                                  DefaultPropagate)}} : TRUE
    ELSE T

\* Mutant: the next category is not set IN_PROGRESS.
ProgressWith_NoMark(h, next_category) ==
    IF next_category # NonePath
    THEN LET st1 == [h.state EXCEPT
                       !.current_page_url = h.structure[next_category].url,
                       !.current_page_site_path = get_path(next_category)]
         IN  [structure |-> h.structure,
              state |-> st1,
              disk |-> Save(h.structure, st1),
              pager |-> StartPager(h.structure[next_category].url),
              started |-> Append(h.started, next_category)]
    ELSE h

\* __progress_to_next_category on the heap h = [structure, state, disk, pager,
\* started], next_category being what find_leaf_with_visit_state returned:
\* the heap after the call.
ProgressWith(h, next_category) ==
    IF next_category # NonePath
    THEN LET T1 == set_visit_state(h.structure, next_category, St_IN_PROGRESS, TRUE)
             st1 == [h.state EXCEPT
                       !.current_page_url = T1[next_category].url,
                       !.current_page_site_path = get_path(next_category)]
         IN  [structure |-> T1,
              state |-> st1,
              disk |-> Save(T1, st1),
              pager |-> StartPager(T1[next_category].url),
              started |-> Append(h.started, next_category)]
    ELSE h

ProgressFrom(hv) ==
    CHOOSE r \in {ProgressWith(hv, next_category) :
                    next_category \in
                        {find_leaf_with_visit_state(hv.structure, St_NEW)}} : TRUE

ProgressToNextCategory(h) == CHOOSE r \in {ProgressFrom(hv) : hv \in {h}} : TRUE

\* start_requests on a loaded state: the url the pager is created with.
ResumedPageUrl(st) == st.current_page_url

\* _on_site_structure_discovery_complete(discoverer)
OnSiteStructureDiscoveryComplete(h) ==
    LET st1 == [h.state EXCEPT !.site_structure = "ref"]
    IN  ProgressToNextCategory(
            [h EXCEPT !.state = st1, !.disk = Save(h.structure, st1)])

\* Mutant: the new page url is kept in memory and not saved.
OnPageFinished_NoSave(h, next_page_url) ==
    [h EXCEPT !.state = [h.state EXCEPT !.current_page_url = next_page_url]]

\* __on_page_finished(next_page_url)
OnPageFinished(h, next_page_url) ==
    LET st1 == [h.state EXCEPT !.current_page_url = next_page_url]
    IN  [h EXCEPT !.state = st1, !.disk = Save(h.structure, st1)]

\* Mutant: a path that names no node is passed over silently.
CurrentCategoryFound_Always(T, current_page_site_path) == TRUE

\* __on_paging_finished(): get_node_at_path(current_page_site_path) returns a
\* node; otherwise it raises and the callback ends there.
CurrentCategoryFound(T, current_page_site_path) ==
    HasNodeAtPath(T, current_page_site_path)

\* __on_paging_finished(), up to the propagation: the tree after the current
\* category was set VISITED and VISITED was propagated to the ancestors.
MarkCurrentCategoryVisited(T, current_category_path) ==
    PropagateVisitedIfSiblingsVisited(
        set_visit_state(T, current_category_path, St_VISITED, FALSE),
        current_category_path)

\* __on_paging_finished(): the heap after the call, T2 being the tree after
\* the marking above.
OnPagingFinished(h, T2) ==
    ProgressToNextCategory(
        [h EXCEPT !.structure = T2, !.pager = [@ EXCEPT !.status = "finished"]])

Heap == [structure |-> structure, state |-> state, disk |-> disk,
         pager |-> pager, started |-> started]

SetHeap(h) ==
    /\ structure' = h.structure
    /\ state' = h.state
    /\ disk' = h.disk
    /\ pager' = h.pager
    /\ started' = h.started

\* -------------------------------------------------- SiteStructureDiscoverer
StartUrl == CategoryUrl(<<>>)

\* Mutant: the parent path dropped.
StructurePath_NameOnly(path, name) == <<name>>

\* The path the code builds for a category found on the page of `path`.
StructurePath(path, name) ==
    IF path = NonePath THEN <<name>> ELSE Append(path, name)

\* Mutant: the loop runs over the pairs from the last one to the first.
RECURSIVE InsertPairs_Reversed(_, _, _, _)
InsertPairs_Reversed(T, pairs, path, i) ==
    IF i > Len(pairs) THEN T
    ELSE CHOOSE r \in {InsertPairs_Reversed(T1, pairs, path, i + 1) :
                          T1 \in {add_node_with_path(
                                     T,
                                     StructurePath(path, pairs[Len(pairs) + 1 - i].name),
                                     pairs[Len(pairs) + 1 - i].url)}} : TRUE

\* The loop of __process_category_response over the first i pairs: the tree
\* after the insertions.
RECURSIVE InsertPairs(_, _, _, _)
InsertPairs(T, pairs, path, i) ==
    IF i > Len(pairs) THEN T
    ELSE CHOOSE r \in {InsertPairs(T1, pairs, path, i + 1) :
                          T1 \in {add_node_with_path(
                                     T, StructurePath(path, pairs[i].name),
                                     pairs[i].url)}} : TRUE

\* The list of requests the loop collects, one per pair, in the order of
\* the pairs.
SpawnedRequests(pairs, category_index, path) ==
    IF category_index + 1 < category_parsers
    THEN [i \in 1..Len(pairs) |->
            [url |-> pairs[i].url, category_index |-> category_index + 1,
             path |-> StructurePath(path, pairs[i].name)]]
    ELSE <<>>

\* The bag of one element, and the number of requests in a bag of lists.
OneBag(x) == SetToBag({x})

RECURSIVE SumOfLengths(_, _)
SumOfLengths(B, lists) ==
    IF lists = {} THEN 0
    ELSE LET l == CHOOSE x \in lists : TRUE
         IN  B[l] * Len(l) + SumOfLengths(B, lists \ {l})

NotHandedOver(B) == SumOfLengths(B, BagToSet(B))

\* Mutant: the decrement forgotten.
AfterDecrement_None(rw) == rw

\* self.__remaining_work -= 1
AfterDecrement(rw) == rw - 1

\* Mutant: the increment forgotten.
AfterIncrement_None(rw, requests) == rw

\* Mutant: one is added for a page with requests, whatever their number.
AfterIncrement_One(rw, requests) == rw + (IF requests = <<>> THEN 0 ELSE 1)

\* self.__remaining_work += len(requests)
AfterIncrement(rw, requests) == rw + Len(requests)

\* Mutant: the counter is compared before the spawned requests are counted.
IsDiscoveryComplete_BeforeIncrement(decremented, incremented) == decremented = 0

\* Mutant: a page without requests returns before the counter is compared.
IsDiscoveryComplete_EarlyReturn(decremented, incremented) ==
    incremented = 0 /\ incremented # decremented

\* if self.__remaining_work == 0, evaluated after the decrement and the
\* increment (decremented: the counter after the decrement alone).
IsDiscoveryComplete(decremented, incremented) == incremented = 0

\* ------------------------------------------------------------------- Init
\* A page that no page above it lists is never fetched: it lists nothing.
ValidSite(s) ==
    \A p \in DOMAIN s :
        (p # <<>> /\ \A i \in 1..Len(s[Front(p)]) : s[Front(p)][i] # p[Len(p)])
            => s[p] = <<>>

Init ==
    /\ category_parsers \in 1..MaxLevels
    /\ site \in {s \in [PathsUpTo(category_parsers - 1) -> Listings] :
                    ValidSite(s)}
    /\ numPages \in 1..MaxPages
    /\ config = [has_category_selectors |-> TRUE, has_start_url |-> TRUE]
    /\ pc = "constructed"
    /\ remaining_work = 0
    /\ inflight = EmptyBag
    /\ suspended = EmptyBag
    /\ structure = NoStructure
    /\ state = NoState
    /\ disk = NoDisk
    /\ pager = NoPager
    /\ completeCalls = 0
    /\ zeroEnds = 0
    /\ resolutions = 0
    /\ started = <<>>
    /\ resumes = 0
    /\ lastCallback = "init"

\* ---------------------------------------------------------------- actions
\* What a caller passes as the first argument of SiteStructureDiscoverer:
\* the name of the spider, a str, or the spider, an object with a name.
NameStr == "str"
SpiderObject == "spider"

\* SiteStructureDiscoverer.__init__: self.name = spider.name raises
\* AttributeError when the first argument has no name attribute.
DiscovererInitRaises(first_argument) == first_argument # SpiderObject

\* SiteStructureDiscoverer.__init__ and create_start_request: the empty
\* structure is made, the counter is incremented and the start request is
\* returned, to be dispatched by the caller.
CreateStartRequest ==
    /\ structure' = EmptyStructure
    /\ remaining_work' = remaining_work + 1
    /\ inflight' = inflight (+) OneBag([url |-> StartUrl, category_index |-> 0,
                                        path |-> NonePath])
    /\ pager' = pager
    /\ pc' = "discovery"

\* CategoryBasedSpider.start_requests. On a state that was not loaded the
\* spider passes self.name to SiteStructureDiscoverer, whose constructor
\* raises: start_requests ends with the exception and nothing is yielded.
StartRequests ==
    /\ pc = "constructed"
    /\ IF state.is_loaded
       THEN /\ pager' = StartPager(ResumedPageUrl(state))
            /\ pc' = "traversal"
            /\ UNCHANGED <<remaining_work, inflight, structure>>
       ELSE IF DiscovererInitRaises(NameStr)
            THEN /\ pc' = "start_failed"
                 /\ UNCHANGED <<remaining_work, inflight, structure, pager>>
            ELSE CreateStartRequest
    /\ lastCallback' = "start_requests"
    /\ UNCHANGED <<siteVars, suspended, state, disk, completeCalls, zeroEnds,
                   resolutions, started, resumes>>

\* A discoverer is constructed with the spider itself as first argument, the
\* start url, the selectors and _on_site_structure_discovery_complete of a
\* spider that has no progress file, and its start request is dispatched.
DiscovererStart ==
    /\ pc = "constructed"
    /\ ~state.is_loaded
    /\ ~DiscovererInitRaises(SpiderObject)
    /\ CreateStartRequest
    /\ lastCallback' = "create_start_request"
    /\ UNCHANGED <<siteVars, suspended, state, disk, completeCalls, zeroEnds,
                   resolutions, started, resumes>>

\* SiteStructureDiscoverer.__process_category_response for the fetch f, from
\* the call to the first yield: the generator runs lines 59-76 and hands over
\* what it yields first, the result of the completion callback or else the
\* first request of its list; it stays suspended with the requests it has
\* still to yield.
ProcessCategoryResponse(f) ==
    /\ f \in BagToSet(inflight)
    /\ f.category_index < category_parsers
    /\ LET urls_and_names == Parse(f.url)
           requests == SpawnedRequests(urls_and_names, f.category_index, f.path)
           decremented == AfterDecrement(remaining_work)
           rw == AfterIncrement(decremented, requests)
           complete == IsDiscoveryComplete(decremented, rw)
           first == IF ~complete /\ requests # <<>>
                    THEN OneBag(Head(requests)) ELSE EmptyBag
           rest == IF complete \/ requests = <<>> THEN requests ELSE Tail(requests)
       IN  /\ remaining_work' = rw
           /\ inflight' = (inflight (-) OneBag(f)) (+) first
           /\ suspended' = IF rest = <<>> THEN suspended
                           ELSE suspended (+) OneBag(rest)
           /\ resolutions' = resolutions + 1
           /\ zeroEnds' = zeroEnds + (IF rw = 0 THEN 1 ELSE 0)
           /\ \E T1 \in {InsertPairs(structure, urls_and_names, f.path, 1)} :
                 IF complete
                 THEN /\ \E h \in {OnSiteStructureDiscoveryComplete(
                                       [Heap EXCEPT !.structure = T1])} : SetHeap(h)
                      /\ completeCalls' = completeCalls + 1
                      /\ pc' = "traversal"
                 ELSE /\ structure' = T1
                      /\ UNCHANGED <<state, disk, pager, started, completeCalls, pc>>
    /\ lastCallback' = "process_category_response"
    /\ UNCHANGED <<siteVars, resumes>>

\* A suspended __process_category_response generator is resumed (for req in
\* requests: yield req): it hands over the next request of its list.
ResumeProcessCategoryResponse(g) ==
    /\ g \in BagToSet(suspended)
    /\ inflight' = inflight (+) OneBag(Head(g))
    /\ suspended' = IF Tail(g) = <<>> THEN suspended (-) OneBag(g)
                    ELSE (suspended (-) OneBag(g)) (+) OneBag(Tail(g))
    /\ UNCHANGED <<siteVars, pc, remaining_work, structure, state, disk, pager,
                   completeCalls, zeroEnds, resolutions, started, resumes,
                   lastCallback>>

\* The pager finished a page: __on_page_finished(next_page_url)
PageFinished ==
    /\ pager.status = "fetching"
    /\ LET next_page_url == NextPageUrl(pager.url)
       IN  \E h \in {OnPageFinished(Heap, next_page_url)} :
              SetHeap([h EXCEPT !.pager =
                          IF next_page_url = NoneUrl
                          THEN [pager EXCEPT !.status = "exhausted"]
                          ELSE [pager EXCEPT !.url = next_page_url]])
    /\ lastCallback' = "on_page_finished"
    /\ UNCHANGED <<siteVars, discoveryVars, pc, resumes>>

\* The pager has no more pages: __on_paging_finished()
PagingFinished ==
    /\ pager.status = "exhausted"
    /\ CurrentCategoryFound(structure, state.current_page_site_path)
    /\ \E T2 \in {MarkCurrentCategoryVisited(structure, state.current_page_site_path)} :
          \E h \in {OnPagingFinished(Heap, T2)} : SetHeap(h)
    /\ lastCallback' = "on_paging_finished"
    /\ UNCHANGED <<siteVars, discoveryVars, pc, resumes>>

\* The process stops and a new spider is constructed over the progress file.
Restart ==
    /\ pc = "traversal"
    /\ disk.exists
    /\ resumes < MaxResumes
    /\ pc' = "constructed"
    /\ state' = Load(disk)
    /\ structure' = disk.site_structure
    /\ pager' = NoPager
    /\ inflight' = EmptyBag
    /\ suspended' = EmptyBag
    /\ resumes' = resumes + 1
    /\ lastCallback' = "restart"
    /\ UNCHANGED <<siteVars, remaining_work, completeCalls, zeroEnds,
                   resolutions, disk, started>>

Next ==
    \/ StartRequests
    \/ DiscovererStart
    \/ \E f \in BagToSet(inflight) : ProcessCategoryResponse(f)
    \/ \E g \in BagToSet(suspended) : ResumeProcessCategoryResponse(g)
    \/ PageFinished
    \/ PagingFinished
    \/ Restart

Spec == Init /\ [][Next]_vars

\* Every dispatched fetch is eventually resolved, every suspended generator is
\* eventually resumed and the pager keeps going.
FairSpec ==
    /\ Spec
    /\ WF_vars(StartRequests)
    /\ WF_vars(\E f \in BagToSet(inflight) : ProcessCategoryResponse(f))
    /\ WF_vars(\E g \in BagToSet(suspended) : ResumeProcessCategoryResponse(g))
    /\ WF_vars(PageFinished)
    /\ WF_vars(PagingFinished)

\* ------------------------------------------ a progress file with a bad path
\* A current_page_site_path that names no node of any tree.
MissingPath == <<"missing">>

\* A new spider is constructed over a progress file whose
\* current_page_site_path names no node of the saved tree.
RestartOnBadPath ==
    /\ pc = "traversal"
    /\ disk.exists
    /\ resumes < MaxResumes
    /\ pc' = "constructed"
    /\ disk' = [disk EXCEPT !.current_page_site_path = MissingPath]
    /\ state' = Load(disk')
    /\ structure' = disk.site_structure
    /\ pager' = NoPager
    /\ inflight' = EmptyBag
    /\ suspended' = EmptyBag
    /\ resumes' = resumes + 1
    /\ lastCallback' = "restart"
    /\ UNCHANGED <<siteVars, remaining_work, completeCalls, zeroEnds,
                   resolutions, started>>

\* __on_paging_finished() when get_node_at_path raises: the callback ends
\* with the exception and the pager, which called it, is done.
PagingFinishedNotFound ==
    /\ pager.status = "exhausted"
    /\ ~CurrentCategoryFound(structure, state.current_page_site_path)
    /\ pager' = [pager EXCEPT !.status = "failed"]
    /\ lastCallback' = "on_paging_finished"
    /\ UNCHANGED <<siteVars, discoveryVars, pc, resumes, structure, state, disk,
                   started>>

BadPathNext ==
    \/ Next
    \/ RestartOnBadPath
    \/ PagingFinishedNotFound

BadPathSpec == Init /\ [][BadPathNext]_vars

\* ------------------------------------------------------------ construction
\* The constructor arguments: category_selectors None, or a list of
\* category_parsers selectors (possibly none); start_url given or not.
Configs ==
    {c \in [has_category_selectors : BOOLEAN, has_start_url : BOOLEAN,
            category_parsers : 0..MaxLevels] :
        ~c.has_category_selectors => c.category_parsers = 0}

\* The pages whose listing matters: those fetched with n selectors.
FetchedLevels(n) == IF n > 0 THEN n - 1 ELSE 0

\* CategoryBasedSpider.__init__ raises ValueError.
ConstructionFails(cfg) ==
    \/ ~cfg.has_category_selectors
    \/ ~cfg.has_start_url

ConfigInit ==
    /\ \E c \in Configs :
          /\ category_parsers = c.category_parsers
          /\ config = [has_category_selectors |-> c.has_category_selectors,
                       has_start_url |-> c.has_start_url]
    /\ site \in {s \in [PathsUpTo(FetchedLevels(category_parsers)) -> Listings] :
                    ValidSite(s)}
    /\ numPages \in 1..MaxPages
    /\ pc = "new"
    /\ remaining_work = 0
    /\ inflight = EmptyBag
    /\ suspended = EmptyBag
    /\ structure = NoStructure
    /\ state = NoState
    /\ disk = NoDisk
    /\ pager = NoPager
    /\ completeCalls = 0
    /\ zeroEnds = 0
    /\ resolutions = 0
    /\ started = <<>>
    /\ resumes = 0
    /\ lastCallback = "init"

\* CategoryBasedSpider.__init__
Construct ==
    /\ pc = "new"
    /\ pc' = IF ConstructionFails(config) THEN "construction_failed"
             ELSE "constructed"
    /\ lastCallback' = "construct"
    /\ UNCHANGED <<siteVars, discoveryVars, structure, state, disk, pager,
                   started, resumes>>

\* __process_category_response for the fetch f when there is no selector at
\* category_index: the counter is decremented and the indexing raises.
ProcessCategoryResponseIndexError(f) ==
    /\ f \in BagToSet(inflight)
    /\ ~(f.category_index < category_parsers)
    /\ remaining_work' = AfterDecrement(remaining_work)
    /\ inflight' = inflight (-) OneBag(f)
    /\ resolutions' = resolutions + 1
    /\ lastCallback' = "process_category_response"
    /\ UNCHANGED <<siteVars, suspended, structure, state, disk, pager, started,
                   completeCalls, zeroEnds, pc, resumes>>

ConfigNext ==
    \/ Construct
    \/ Next
    \/ \E f \in BagToSet(inflight) : ProcessCategoryResponseIndexError(f)

ConfigSpec == ConfigInit /\ [][ConfigNext]_vars

\* --------------------------------------------------- discovery: properties
\* The categories of the site: every path whose names are listed, level by
\* level, on the pages above it.
SiteCategories ==
    {p \in PathsUpTo(category_parsers) \ {<<>>} :
        \A i \in 1..Len(p) :
            \E j \in 1..Len(site[SubSeq(p, 1, i - 1)]) :
                site[SubSeq(p, 1, i - 1)][j] = p[i]}

\* The categories whose page is fetched: those above the last level.
FetchedCategories == {p \in SiteCategories : Len(p) < category_parsers}

\* C1: whatever the order of the resolutions, the counter is zero at the end
\* of at most one resolution and on_discovery_complete is called at most
\* once; when every fetch has resolved (none is outstanding and no suspended
\* resolution has one still to hand over) both happened exactly once.
C1_CompleteExactlyOnce ==
    /\ completeCalls <= 1
    /\ zeroEnds <= 1
    /\ (resolutions > 0 /\ inflight = EmptyBag /\ suspended = EmptyBag) =>
           (completeCalls = 1 /\ zeroEnds = 1)

\* Discovery of a site with two fetched sub-pages has completed.
C1_Witness ==
    /\ completeCalls = 1
    /\ zeroEnds = 1
    /\ inflight = EmptyBag
    /\ suspended = EmptyBag
    /\ resolutions >= 3

\* C2: while a discovery fetch is dispatched and unresolved, or collected by
\* a suspended resolution and not handed over yet, the completion
\* callback has not run, no progress file exists, the spider state holds no
\* tree and no pager was made; once the callback has run the tree gets no
\* further node.
C2_NoCompletionWhileOutstanding ==
    /\ []((inflight # EmptyBag \/ suspended # EmptyBag) =>
            /\ completeCalls = 0
            /\ ~disk.exists
            /\ state.site_structure = "None"
            /\ pager = NoPager
            /\ started = <<>>)
    /\ [][completeCalls > 0 =>
            /\ DOMAIN structure' = DOMAIN structure
            /\ \A p \in DOMAIN structure :
                   /\ structure'[p].children = structure[p].children
                   /\ structure'[p].url = structure[p].url]_vars

\* Two discovery fetches are outstanding after the start page resolved.
C2_Witness ==
    /\ BagCardinality(inflight) >= 2
    /\ resolutions >= 1
    /\ completeCalls = 0

\* C3: with every dispatched fetch eventually resolved, a discovery whose
\* start request was dispatched eventually completes: the counter is back at
\* zero and the callback has run.
C3_DiscoveryCompletes ==
    (pc = "discovery") ~> (/\ completeCalls = 1
                           /\ remaining_work = 0
                           /\ inflight = EmptyBag
                           /\ suspended = EmptyBag)

C3_Witness ==
    /\ completeCalls = 1
    /\ remaining_work = 0
    /\ resolutions = 1 + Cardinality(FetchedCategories)
    /\ resolutions >= 2

\* C4: when discovery is complete the tree holds the root and exactly one
\* node per category of the site, at parent_path/name with the listed url,
\* the children of a node are the names listed on its page, and the number
\* of resolutions is 1 + the number of categories above the last level.
C4_TreeAndResolutions ==
    completeCalls >= 1 =>
        /\ DOMAIN structure = {<<>>} \cup SiteCategories
        /\ \A p \in SiteCategories : structure[p].url = CategoryUrl(p)
        /\ structure[<<>>].url = NoneUrl
        /\ \A p \in DOMAIN structure :
               structure[p].children =
                   (IF Len(p) < category_parsers THEN site[p] ELSE <<>>)
        /\ resolutions = 1 + Cardinality(FetchedCategories)

\* The two-level example: root -> {b -> {b}, a}, complete after 3 resolutions.
C4_Witness ==
    /\ completeCalls = 1
    /\ category_parsers = 2
    /\ DOMAIN structure = {<<>>, <<"b">>, <<"a">>, <<"b", "b">>}
    /\ resolutions = 3

\* --------------------------------------------------- traversal: properties
ChildPaths(T, p) == {Append(p, T[p].children[i]) : i \in 1..Len(T[p].children)}

AllChildrenVisited(T, p) == \A c \in ChildPaths(T, p) : T[c].visit_state = St_VISITED

\* The leaves of T in pre-order.
RECURSIVE LeavesFrom(_, _), LeavesOfChildren(_, _, _)
LeavesFrom(T, p) == IF IsLeaf(T, p) THEN <<p>> ELSE LeavesOfChildren(T, p, 1)
LeavesOfChildren(T, p, i) ==
    IF i > Len(T[p].children) THEN <<>>
    ELSE LeavesFrom(T, Append(p, T[p].children[i])) \o LeavesOfChildren(T, p, i + 1)

PreOrderLeaves(T) == LeavesFrom(T, <<>>)

\* C5: a VISITED node has every child VISITED, in the memory of the running
\* spider (a resumed one included) and in the progress file.
C5_VisitedHasVisitedChildren ==
    /\ \A p \in DOMAIN structure :
           structure[p].visit_state = St_VISITED => AllChildrenVisited(structure, p)
    /\ \A p \in DOMAIN disk.site_structure :
           disk.site_structure[p].visit_state = St_VISITED
               => AllChildrenVisited(disk.site_structure, p)

\* An inner node was set VISITED by the propagation while a leaf elsewhere is
\* not visited yet.
C5_Witness ==
    /\ \E p \in DOMAIN structure :
           /\ ~IsLeaf(structure, p)
           /\ structure[p].visit_state = St_VISITED
    /\ \E q \in DOMAIN structure : structure[q].visit_state = St_IN_PROGRESS

\* C6: an inner node is VISITED exactly when all its children are, and a leaf
\* becomes VISITED only in __on_paging_finished for that very leaf.
C6_BottomUpPropagation ==
    /\ [](\A p \in DOMAIN structure :
             ~IsLeaf(structure, p) =>
                 (structure[p].visit_state = St_VISITED <=> AllChildrenVisited(structure, p)))
    /\ [][\A p \in DOMAIN structure \cap DOMAIN structure' :
             (/\ IsLeaf(structure', p)
              /\ structure[p].visit_state # St_VISITED
              /\ structure'[p].visit_state = St_VISITED)
             => (/\ pager.status = "exhausted"
                 /\ state.current_page_site_path = p
                 /\ lastCallback' = "on_paging_finished")]_vars

\* Under the root, one category is VISITED through its only leaf and its
\* sibling is not: the root stays unvisited.
C6_Witness ==
    /\ lastCallback = "on_paging_finished"
    /\ {<<"b", "b">>, <<"a">>} \subseteq DOMAIN structure
    /\ structure[<<"b">>].visit_state = St_VISITED
    /\ structure[<<"a">>].visit_state = St_IN_PROGRESS
    /\ structure[<<>>].visit_state = St_NEW

\* C7: in an uninterrupted run the leaves started so far are a prefix of the
\* pre-order of the leaves, all but the last one are VISITED, the last one is
\* IN_PROGRESS and the cursor while its pager runs, and when the last pager
\* has finished every leaf was started.
C7_LeavesInPreOrder ==
    (resumes = 0 /\ completeCalls >= 1) =>
        LET leaves == PreOrderLeaves(structure)
            n == Len(started)
        IN  /\ n >= 1
            /\ n <= Len(leaves)
            /\ started = SubSeq(leaves, 1, n)
            /\ \A i \in 1..(n - 1) : structure[started[i]].visit_state = St_VISITED
            /\ \A i \in (n + 1)..Len(leaves) : structure[leaves[i]].visit_state = St_NEW
            /\ IF pager.status = "finished"
               THEN /\ n = Len(leaves)
                    /\ structure[started[n]].visit_state = St_VISITED
               ELSE /\ structure[started[n]].visit_state = St_IN_PROGRESS
                    /\ state.current_page_site_path = started[n]
                    /\ pager.url.path = started[n] \/ pager.status = "stalled"

\* The third leaf of a tree was started after the first two finished.
C7_Witness ==
    /\ resumes = 0
    /\ Len(started) = 3
    /\ started = SubSeq(PreOrderLeaves(structure), 1, 3)
    /\ pager.status = "fetching"

\* No leaf is NEW, every node is VISITED and no fetch is outstanding.
Terminal ==
    /\ completeCalls >= 1
    /\ find_leaf_with_visit_state(structure, St_NEW) = NonePath
    /\ \A p \in DOMAIN structure : structure[p].visit_state = St_VISITED
    /\ pager.status = "finished"
    /\ inflight = EmptyBag

\* C8: a traversal that has begun reaches the terminal state unless a pager
\* is stuck for ever (its leaf never reports that paging finished).
C8_TraversalTerminates ==
    \/ [](pc # "traversal")
    \/ <>[](pager.status = "stalled")
    \/ <>Terminal

C8_Witness ==
    /\ Terminal
    /\ Len(started) >= 3
    /\ resumes = 0

\* C9 (as claimed): whenever a callback of the spider has returned, the
\* progress file equals the state in memory.
C9_SnapshotEqualsMemory ==
    pc = "traversal" => disk = Save(structure, state)

\* What the running spider fetches next: the page its pager is fetching, or,
\* when the pager reported no next page, the first page of the category
\* __on_paging_finished moves to; NoneUrl when there is nothing to fetch.
OriginalNextFetch ==
    CASE pager.status = "fetching" -> pager.url
      [] pager.status = "exhausted" ->
            LET h == OnPagingFinished(Heap,
                        MarkCurrentCategoryVisited(structure, state.current_page_site_path))
            IN  IF h.pager.status = "fetching" THEN h.pager.url ELSE NoneUrl
      [] OTHER -> NoneUrl

\* What a spider constructed over the progress file fetches first.
ResumedNextFetch ==
    LET p == StartPager(Load(disk).current_page_url)
    IN  IF p.status = "fetching" THEN p.url ELSE NoneUrl

\* C10 (as claimed): a spider constructed from the saved state fetches next
\* what the running spider would fetch next.
C10_ResumeSameNextFetch ==
    (pc = "traversal" /\ disk.exists) => ResumedNextFetch = OriginalNextFetch

\* ------------------------------------------------------ startup: properties
\* C11 (as claimed): start_requests on a state loaded from the progress file dispatches no
\* discovery fetch, now or later, keeps the loaded tree, the state and the file
\* as they are, starts no new leaf, and creates the pager on the persisted
\* current_page_url, which is a page of the persisted current_page_site_path
\* when it is a url; on a state that was not loaded it dispatches the one
\* discovery start request and creates no pager.
C11_ResumeSkipsDiscovery ==
    /\ [][resumes' > 0 => /\ inflight' = EmptyBag
                          /\ suspended' = EmptyBag
                          /\ resolutions' = resolutions]_vars
    /\ [][(pc = "constructed" /\ pc' # "constructed") =>
            IF state.is_loaded
            THEN /\ structure' = structure
                 /\ structure' = disk.site_structure
                 /\ state' = state
                 /\ disk' = disk
                 /\ started' = started
                 /\ pager'.url = disk.current_page_url
                 /\ (pager'.status = "fetching") = (disk.current_page_url # NoneUrl)
                 /\ disk.current_page_url # NoneUrl =>
                        disk.current_page_url.path = disk.current_page_site_path
                 /\ pc' = "traversal"
            ELSE /\ inflight' = OneBag([url |-> StartUrl, category_index |-> 0,
                                        path |-> NonePath])
                 /\ remaining_work' = 1
                 /\ pager' = NoPager
                 /\ pc' = "discovery"]_vars

\* C12: __on_page_finished changes current_page_url in memory and in the
\* progress file and nothing else: the tree, its visit states, the current
\* path and the list of started leaves stay as they are.
C12_PageAdvanceOnlyMovesUrl ==
    [][lastCallback' = "on_page_finished" =>
          /\ state' = [state EXCEPT !.current_page_url = NextPageUrl(pager.url)]
          /\ disk' = [disk EXCEPT !.current_page_url = NextPageUrl(pager.url)]
          /\ structure' = structure
          /\ started' = started
          /\ pc' = pc]_vars

\* A page advance to the second page of a leaf was saved.
C12_Witness ==
    /\ lastCallback = "on_page_finished"
    /\ state.current_page_url.page = 2
    /\ disk.current_page_url = state.current_page_url
    /\ Len(started) >= 1

\* C13: when current_page_site_path names no node of the tree, the
\* paging-finished callback ends at the failed lookup: it sets no visit state,
\* starts no leaf, saves nothing and dispatches nothing, and as long as the
\* process is not restarted nothing more happens.
C13_BadPathStopsTheCrawl ==
    [][(/\ pager.status \in {"exhausted", "failed"}
        /\ ~HasNodeAtPath(structure, state.current_page_site_path)
        /\ pc' = pc) =>
          /\ structure' = structure
          /\ state' = state
          /\ disk' = disk
          /\ started' = started
          /\ inflight' = inflight
          /\ suspended' = suspended
          /\ pager' = [pager EXCEPT !.status = "failed"]]_vars

\* The lookup failed while a leaf of the tree was still NEW.
C13_Witness ==
    /\ pager.status = "failed"
    /\ state.current_page_site_path = MissingPath
    /\ \E p \in DOMAIN structure : structure[p].visit_state = St_NEW
    /\ disk = Save(structure, state)

\* C14: a spider given no category selectors (None or an empty list) or no
\* start url is never constructed: no fetch is dispatched and no callback runs.
C14_MissingConfigNeverStarts ==
    (\/ ~config.has_category_selectors
     \/ category_parsers = 0
     \/ ~config.has_start_url) =>
        /\ pc \in {"new", "construction_failed"}
        /\ inflight = EmptyBag
        /\ resolutions = 0
        /\ lastCallback \in {"init", "construct"}

\* ------------------------------------------- discovery: counter and leaves
\* The requests counted and not resolved: the fetches outstanding and the
\* requests that suspended resolutions have collected and not handed over.
CountedRequests == BagCardinality(inflight) + NotHandedOver(suspended)

\* C15 as stated: between callbacks the counter is the number of discovery
\* fetches dispatched and not resolved, never below zero; a resolution
\* compares the counter with zero after its decrement and its increments.
C15_CounterEqualsDispatched ==
    /\ [](remaining_work = BagCardinality(inflight) /\ remaining_work >= 0)
    /\ [][resolutions' = resolutions + 1 =>
            (completeCalls' = completeCalls + 1) = (remaining_work' = 0)]_vars

\* C15, amended: between callbacks the counter is the number of discovery
\* fetches dispatched and not resolved plus the number of requests that
\* suspended resolutions have counted and not handed over yet, so it is never
\* below the number of fetches outstanding and never below zero; a resolution
\* takes one off and adds one per request it collects before it compares the
\* counter with zero and before it hands any request over, so the completion
\* callback runs in a resolution exactly when that resolution leaves the
\* counter at zero, with nothing outstanding and nothing to hand over.
C15_CounterCountsCollected ==
    /\ [](/\ remaining_work = CountedRequests
          /\ remaining_work >= BagCardinality(inflight)
          /\ remaining_work >= 0)
    /\ [][resolutions' = resolutions + 1 =>
            /\ (completeCalls' = completeCalls + 1) = (remaining_work' = 0)
            /\ completeCalls' \in {completeCalls, completeCalls + 1}
            /\ remaining_work' = 0 =>
                   (inflight' = EmptyBag /\ suspended' = EmptyBag)]_vars

\* The start page spawned two fetches; the first was handed over and has
\* resolved while the second is still to be handed over by the suspended
\* resolution of the start page.
C15_Witness ==
    /\ resolutions = 2
    /\ remaining_work = 1
    /\ inflight = EmptyBag
    /\ NotHandedOver(suspended) = 1
    /\ completeCalls = 0

\* C16: a start page that lists nothing ends discovery at the first and only
\* resolution with the root alone in the tree and one completion call; the
\* resolution of any page that lists nothing spawns no request, takes one off
\* the counter and adds no node, so the page's category keeps no children.
C16_EmptyPages ==
    /\ []((site[<<>>] = <<>> /\ resolutions >= 1) =>
            /\ resolutions = 1
            /\ completeCalls = 1
            /\ zeroEnds = 1
            /\ inflight = EmptyBag
            /\ suspended = EmptyBag
            /\ DOMAIN structure = {<<>>}
            /\ structure[<<>>].children = <<>>)
    /\ [][\A f \in BagToSet(inflight) :
            (/\ CopiesIn(f, inflight') < CopiesIn(f, inflight)
             /\ resolutions' = resolutions + 1
             /\ site[f.url.path] = <<>>) =>
                /\ remaining_work' = remaining_work - 1
                /\ inflight' = inflight (-) OneBag(f)
                /\ suspended' = suspended
                /\ DOMAIN structure' = DOMAIN structure
                /\ \A p \in DOMAIN structure :
                       structure'[p].children = structure[p].children
                /\ IsLeaf(structure', f.url.path)]_vars

\* The page of category b listed nothing: discovery is over, b is a leaf.
C16_Witness ==
    /\ category_parsers = 2
    /\ site[<<>>] = <<"b">>
    /\ site[<<"b">>] = <<>>
    /\ resolutions = 2
    /\ completeCalls = 1
    /\ remaining_work = 0
    /\ DOMAIN structure = {<<>>, <<"b">>}
    /\ IsLeaf(structure, <<"b">>)

\* ------------------------------------------------- traversal: visit states
InProgressNodes ==
    {p \in DOMAIN structure : structure[p].visit_state = St_IN_PROGRESS}

\* C17: between callbacks at most one node is IN_PROGRESS; it is a leaf and
\* the node at current_page_site_path, and current_page_url is a url of a
\* page of that leaf.
C17_OneLeafInProgress ==
    /\ Cardinality(InProgressNodes) <= 1
    /\ \A p \in InProgressNodes :
          /\ IsLeaf(structure, p)
          /\ p = state.current_page_site_path
          /\ state.current_page_url # NoneUrl
          /\ state.current_page_url.path = p

\* NEW, then IN_PROGRESS, then VISITED.
Rank(vs) == IF vs = St_NEW THEN 0 ELSE IF vs = St_IN_PROGRESS THEN 1 ELSE 2

\* C18: no step of the spider, a restart from the progress file included,
\* takes the visit state of a node backwards (a VISITED node stays VISITED),
\* no node with children is IN_PROGRESS, and while the spider is not restarted
\* no leaf is started twice.
C18_VisitStatesNeverRegress ==
    /\ [][\A p \in DOMAIN structure \cap DOMAIN structure' :
            Rank(structure'[p].visit_state) >= Rank(structure[p].visit_state)]_vars
    /\ [](\A p \in DOMAIN structure :
            ~IsLeaf(structure, p) => structure[p].visit_state # St_IN_PROGRESS)
    /\ [](resumes = 0 =>
            \A i, j \in 1..Len(started) : started[i] = started[j] => i = j)

\* ------------------------------------------- discovery: order of resolution
\* A tree without its visit states: nodes, urls and the order of children.
Shape(T) == [p \in DOMAIN T |-> [url |-> T[p].url, children |-> T[p].children]]

\* Discovery with the fetches resolved one at a time in the order they were
\* dispatched (breadth first), and with the newest fetch resolved first
\* (depth first): the tree at the end.
RECURSIVE DiscoverFifo(_, _)
DiscoverFifo(T, queue) ==
    IF queue = <<>> THEN T
    ELSE CHOOSE r \in
           {DiscoverFifo(T1, Tail(queue) \o rs) :
               T1 \in {InsertPairs(T, Parse(Head(queue).url), Head(queue).path, 1)},
               rs \in {SpawnedRequests(Parse(Head(queue).url),
                                  Head(queue).category_index, Head(queue).path)}} : TRUE

RECURSIVE DiscoverLifo(_, _)
DiscoverLifo(T, stack) ==
    IF stack = <<>> THEN T
    ELSE CHOOSE r \in
           {DiscoverLifo(T1, Front(stack) \o rs) :
               T1 \in {InsertPairs(T, Parse(stack[Len(stack)].url),
                                   stack[Len(stack)].path, 1)},
               rs \in {SpawnedRequests(Parse(stack[Len(stack)].url),
                                  stack[Len(stack)].category_index,
                                  stack[Len(stack)].path)}} : TRUE

StartFetch == [url |-> StartUrl, category_index |-> 0, path |-> NonePath]

\* The leaves of the site in the order of its listings, top down.
RECURSIVE SiteLeavesFrom(_), SiteLeavesOfListing(_, _)
SiteLeavesFrom(p) ==
    IF Len(p) < category_parsers /\ site[p] # <<>>
    THEN SiteLeavesOfListing(p, 1)
    ELSE <<p>>
SiteLeavesOfListing(p, i) ==
    IF i > Len(site[p]) THEN <<>>
    ELSE SiteLeavesFrom(Append(p, site[p][i])) \o SiteLeavesOfListing(p, i + 1)

\* C19: whatever the order in which the outstanding fetches resolved, the
\* tree at the completion callback has the nodes, urls and orders of children
\* of the tree built by resolving the fetches one at a time, breadth first or
\* depth first, so it is a function of the site alone; its leaves in pre-order
\* are the leaves of the site in listing order and traversal starts them in
\* that order.
C19_TreeIndependentOfOrder ==
    completeCalls >= 1 =>
        /\ Shape(structure) = Shape(DiscoverFifo(EmptyStructure, <<StartFetch>>))
        /\ Shape(structure) = Shape(DiscoverLifo(EmptyStructure, <<StartFetch>>))
        /\ PreOrderLeaves(structure) = SiteLeavesFrom(<<>>)
        /\ resumes = 0 =>
               started = SubSeq(SiteLeavesFrom(<<>>), 1, Len(started))

\* Discovery is complete on a site where the fetches of b and of a were
\* outstanding together and each added a node; the second leaf is started.
C19_Witness ==
    /\ completeCalls = 1
    /\ category_parsers = 2
    /\ site[<<>>] = <<"b", "a">>
    /\ site[<<"b">>] # <<>>
    /\ site[<<"a">>] # <<>>
    /\ resolutions = 3
    /\ Len(started) = 2

====
